---- MODULE Spec2Model ----
(***************************************************************************)
(* tweetstats (src/tweetstats.py): the `followers` run (processFollowers), *)
(* the `unfollows` run (processUnfollowers) and the `metrics` run          *)
(* (processMetrics), over the MySQL table `followers` and the wall clock.  *)
(*                                                                         *)
(* Time is counted in ticks, TicksPerDay ticks to a calendar day; tick 0   *)
(* is midnight of day 0.  Each run is a separate process started by an     *)
(* external timer, so the steps of a followers run and of an unfollows run *)
(* interleave, and the clock may advance between any two steps.  Spec is   *)
(* the followers and unfollows runs on the MySQL store; SpecMetrics is the *)
(* metrics run; SpecSink is the unfollows run and the metrics run writing  *)
(* to InfluxDB.                                                            *)
(***************************************************************************)
EXTENDS Integers, FiniteSets, Sequences, TLC

VARIABLES
    audience,       \* the accounts that follow at some time
    clock,          \* datetime.now(), in ticks
    created,        \* the table `followers` exists (CREATE TABLE IF NOT EXISTS)
    table,          \* committed rows of the table `followers`
    f_pc,           \* followers run: position in processFollowers/storeFollowers
    f_followers,    \* followers run: `followers`, the dict built by getCurrentFollowers
    f_todo,         \* followers run: ids the for-loop of storeFollowers has not reached
    f_tx,           \* followers run: rows written on its connection, not yet committed
    f_conn,         \* followers run: its MySQL connection: "none", "open", "closed"
    u_pc,           \* unfollows run: position in processUnfollowers
    u_cutoff,       \* unfollows run: day_before_yesterday of getUnfollowers
    u_unfollowers,  \* unfollows run: `unfollowers`, the rows fetchall() returned
    u_count,        \* unfollows run: `count`
    u_todo,         \* unfollows run: unfollowers the loop of storeUnfollowers has not reached
    u_tx,           \* unfollows run: rows written on its connection, not yet committed
    u_conn,         \* unfollows run: its MySQL connection
    u_username,     \* unfollows run: `username`
    u_body,         \* unfollows run: `json_body` of storeUnfollowerCount
    u_listed,       \* unfollows run: the database was in `dbs`
    runs,           \* runs started so far, of either kind
    i_dbs,          \* InfluxDB: its databases, as get_list_database() lists them
    i_points,       \* InfluxDB: the points written to the database
    m_runs,         \* metrics runs started so far
    m_pc,           \* metrics run: position in processMetrics/storeMetrics
    m_username,     \* metrics run: `username`
    m_metrics,      \* metrics run: `metrics`, the mapping getMetricsCount returned
    m_listed,       \* metrics run: the database was in `dbs`
    m_body,         \* metrics run: `json_body`
    h_prev,         \* history: the snapshot of the last pass that committed, while no
                    \* sweep has committed since (a set of at most one snapshot)
    h_repeat,       \* history: the running followers run repeats the snapshot h_prev
    h_seen,         \* history: the ids of the snapshots of the passes that committed
    h_at,           \* history: the clock at the select of the running sweep, while no
                    \* time has passed and no pass has written or committed since;
                    \* -1 otherwise
    h_sweep         \* history: "selected" once a sweep has selected, "swept" once it has
                    \* committed too, "reselected" once the sweep after it has selected,
                    \* "none" as soon as a pass commits

i_vars == <<i_dbs, i_points>>
m_vars == <<m_runs, m_pc, m_username, m_metrics, m_listed, m_body>>

vars == <<audience, clock, created, table, runs, i_vars, m_vars,
          f_pc, f_followers, f_todo, f_tx, f_conn,
          u_pc, u_cutoff, u_unfollowers, u_count, u_todo, u_tx, u_conn,
          u_username, u_body, u_listed,
          h_prev, h_repeat, h_sweep, h_seen, h_at>>

f_vars == <<f_pc, f_followers, f_todo, f_tx, f_conn>>
u_vars == <<u_pc, u_cutoff, u_unfollowers, u_count, u_todo, u_tx, u_conn,
            u_username, u_body, u_listed>>

(***************************************************************************)
(* Bounds of the model.                                                    *)
(***************************************************************************)
\* The clock runs from tick 0 to tick MaxTime.
MaxTime == 6
\* The timer starts at most MaxRuns runs.
MaxRuns == 3
\* The number of accounts that follow at some time.
MaxAudience == 2
\* The number of different display attributes an account is fetched with.
NumProfiles == 1

\* At most MaxMetricsRuns metrics runs are started.
MaxMetricsRuns == 1

\* The counters of an account run from 0 to MaxCount.
MaxCount == 1

\* Ticks to a calendar day.
TicksPerDay == 2

\* getUnfollowers: getTheTime(-2, raw=True)
GraceDays == 2

\* Account ids (follower.id): 64-bit integers, written out in decimal.
\* 9007199254740992 is 2^53.
Ids == { "12", "9007199254740992", "9007199254740993" }

\* The display attributes a follower can be fetched with.
Profiles == { [screen_name |-> <<"sn", k>>, name |-> <<"dn", k>>] : k \in 1..NumProfiles }

\* getCurrentFollowers: one entry {id, name, screen_name} per follower fetched.
\* `count` limits the fetch, so any subset of the followers can come back.
Snapshots(accounts) == UNION { [S -> Profiles] : S \in SUBSET accounts }

\* The account names the API can report (user.screen_name).
Usernames == { "alice", "bob" }

\* getMetricsCount: the keys of data_points, in the order the dict holds them.
MetricNames == << "followers_count", "friends_count", "listed_count",
                  "favourites_count", "statuses_count" >>

\* getMetricsCount: the mappings data_points can be.
MetricMaps == [ { MetricNames[i] : i \in DOMAIN MetricNames } -> 0..MaxCount ]

RowIds(rows) == { r.id : r \in rows }

(***************************************************************************)
(* The clock.                                                              *)
(***************************************************************************)
\* getTheTime(delta, raw=True).date(): now + delta days, hours and minutes dropped.
DateOf(now, delta) == ((now \div TicksPerDay) + delta) * TicksPerDay

\* getUnfollowers: day_before_yesterday
Cutoff(now) == DateOf(now, 0 - GraceDays)

(***************************************************************************)
(* The SQL statements.                                                     *)
(***************************************************************************)
\* storeFollowers: INSERT ... VALUES (id, screen_name, name, now, now, 0)
NewRow(id, p, now) ==
    [id |-> id, screen_name |-> p.screen_name, name |-> p.name,
     first_seen |-> now, last_seen |-> now, gone |-> FALSE]

UpdatedRowFirstSeen(r, p, now) ==
    [r EXCEPT !.screen_name = p.screen_name, !.name = p.name,
              !.first_seen = now, !.gone = FALSE]

\* storeFollowers: ON DUPLICATE KEY UPDATE screen_name, name, last_seen, gone=0
UpdatedRow(r, p, now) ==
    [r EXCEPT !.screen_name = p.screen_name, !.name = p.name,
              !.last_seen = now, !.gone = FALSE]

UpsertReplace(rows, id, p, now) ==
    { r \in rows : r.id # id } \cup { NewRow(id, p, now) }

UpsertAlwaysInsert(rows, id, p, now) ==
    rows \cup { NewRow(id, p, now) }

UpsertKeepGone(rows, id, p, now) ==
    IF \E r \in rows : r.id = id
    THEN { IF r.id = id
           THEN [r EXCEPT !.screen_name = p.screen_name, !.name = p.name,
                          !.last_seen = now]
           ELSE r : r \in rows }
    ELSE rows \cup { NewRow(id, p, now) }

UpsertRefreshAll(rows, id, p, now) ==
    { [r EXCEPT !.last_seen = now] :
         r \in (IF \E q \in rows : q.id = id
                THEN { IF q.id = id THEN UpdatedRow(q, p, now) ELSE q : q \in rows }
                ELSE rows \cup { NewRow(id, p, now) }) }

\* storeFollowers: the whole INSERT ... ON DUPLICATE KEY UPDATE, on primary key id
Upsert(rows, id, p, now) ==
    IF \E r \in rows : r.id = id
    THEN { IF r.id = id THEN UpdatedRow(r, p, now) ELSE r : r \in rows }
    ELSE rows \cup { NewRow(id, p, now) }

IsUnfollowerAnyGone(r, cutoff) == r.last_seen < cutoff

\* getUnfollowers: WHERE last_seen < '<day_before_yesterday>' AND gone = 0
IsUnfollower(r, cutoff) == r.last_seen < cutoff /\ ~r.gone

\* getUnfollowers: SELECT id, screen_name ... ; fetchall()
SelectUnfollowers(rows, cutoff) ==
    { <<r.id, r.screen_name>> : r \in { q \in rows : IsUnfollower(q, cutoff) } }

\* Conversion of a decimal integer to an IEEE double (53 significant bits,
\* round to nearest, ties to even), on the ids of Ids: 2^53 + 1 has no double
\* of its own and converts to 2^53; the other ids convert exactly.
ToDouble(id) == IF id = "9007199254740993" THEN "9007199254740992" ELSE id

\* storeUnfollowers: WHERE id = {} with the id formatted into the statement as
\* a number, against the varchar column id: the server converts both sides
\* to floating point and compares those.
IdMatches(rowId, literal) == ToDouble(rowId) = ToDouble(literal)

\* storeUnfollowers: UPDATE ... SET gone = 1 WHERE id = <literal>
MarkGone(rows, literal) ==
    { IF IdMatches(r.id, literal) THEN [r EXCEPT !.gone = TRUE] ELSE r : r \in rows }

\* The configured InfluxDB database, creds['influxdb']['database'].
Database == "tweetstats"

\* storeMetrics, storeUnfollowerCount: any(db['name'] == database for db in dbs)
Listed(dbs, name) == \E i \in DOMAIN dbs : dbs[i] = name

CreateDatabaseStrict(dbs, name) ==
    IF Listed(dbs, name)
    THEN [dbs |-> dbs, error |-> TRUE]
    ELSE [dbs |-> Append(dbs, name), error |-> FALSE]

\* connection.create_database(database): CREATE DATABASE on InfluxDB 1.x does
\* nothing, and reports no error, when the database exists.
CreateDatabase(dbs, name) ==
    [dbs |-> IF Listed(dbs, name) THEN dbs ELSE Append(dbs, name), error |-> FALSE]

\* createPoint
createPoint(username, measurement, value, time) ==
    [measurement |-> measurement,
     tags |-> [user |-> username],
     time |-> time,
     fields |-> [value |-> value]]

(***************************************************************************)
(* Transactions: a connection reads the committed rows overlaid with its   *)
(* own writes; its writes reach `table` at commit(), and are rolled back   *)
(* when the process ends without one.  A row written by one connection and *)
(* not yet committed is locked against the other connection.               *)
(***************************************************************************)
OverlayOnlyWritten(rows, tx) == tx

Overlay(rows, tx) == { r \in rows : r.id \notin RowIds(tx) } \cup tx

Init ==
    /\ audience \in { S \in SUBSET Ids : Cardinality(S) = MaxAudience }
    /\ clock = 0
    /\ created = FALSE
    /\ table = {}
    /\ runs = 0
    /\ f_pc = "idle" /\ f_followers = << >> /\ f_todo = {} /\ f_tx = {}
    /\ f_conn = "none"
    /\ u_pc = "idle" /\ u_cutoff = 0 /\ u_unfollowers = {} /\ u_count = 0
    /\ u_todo = {} /\ u_tx = {} /\ u_conn = "none"
    /\ u_username = "" /\ u_body = << >> /\ u_listed = FALSE
    /\ i_dbs = << "_internal" >> /\ i_points = {}
    /\ m_runs = 0
    /\ m_pc = "idle" /\ m_username = "" /\ m_metrics = << >>
    /\ m_listed = FALSE /\ m_body = << >>
    /\ h_prev = {}
    /\ h_repeat = FALSE
    /\ h_sweep = "none"
    /\ h_seen = {}
    /\ h_at = 0 - 1

\* Time passes.
Tick ==
    /\ clock < MaxTime
    /\ clock' = clock + 1
    /\ UNCHANGED <<i_vars, m_vars, audience, created, table, runs, f_vars, u_vars, h_prev, h_repeat, h_sweep>>
    /\ h_at' = 0 - 1
    /\ UNCHANGED h_seen

(***************************************************************************)
(* The followers run: processFollowers.                                    *)
(***************************************************************************)
\* processFollowers: followers = getCurrentFollowers(...)
F_Fetch ==
    /\ f_pc \in {"idle", "done", "failed"}
    /\ runs < MaxRuns
    /\ runs' = runs + 1
    /\ \E snap \in Snapshots(audience) :
          /\ f_followers' = snap
          /\ h_repeat' = (snap \in h_prev)
    /\ f_pc' = "fetched"
    /\ f_todo' = {} /\ f_tx' = {} /\ f_conn' = "none"
    /\ UNCHANGED <<i_vars, m_vars, audience, clock, created, table, u_vars, h_prev, h_sweep>>
    /\ UNCHANGED <<h_seen, h_at>>

\* processFollowers: mysql = initMYSQL(...)
F_Connect ==
    /\ f_pc = "fetched"
    /\ f_pc' = "connected"
    /\ f_conn' = "open"
    /\ UNCHANGED <<i_vars, m_vars, audience, runs, clock, created, table, f_followers, f_todo, f_tx,
                   u_vars, h_prev, h_repeat, h_sweep>>
    /\ UNCHANGED <<h_seen, h_at>>

\* storeFollowers: CREATE DATABASE / CREATE TABLE IF NOT EXISTS
F_Schema ==
    /\ f_pc = "connected"
    /\ f_pc' = "storing"
    /\ created' = TRUE
    /\ f_todo' = DOMAIN f_followers
    /\ UNCHANGED <<i_vars, m_vars, audience, runs, clock, table, f_followers, f_tx, f_conn,
                   u_vars, h_prev, h_repeat, h_sweep>>
    /\ UNCHANGED <<h_seen, h_at>>

\* storeFollowers: one turn of the loop: now = getTheTime(0); cursor.execute(sql, ...)
F_Upsert ==
    /\ f_pc = "storing"
    /\ \E id \in f_todo :
          /\ id \notin RowIds(u_tx)
          /\ LET view == Upsert(Overlay(table, f_tx), id, f_followers[id], clock)
             IN  f_tx' = { r \in view : \/ r.id \in RowIds(f_tx) \cup {id}
                                        \/ r \notin Overlay(table, f_tx) }
          /\ f_todo' = f_todo \ {id}
    /\ UNCHANGED <<i_vars, m_vars, audience, runs, clock, created, table, f_pc, f_followers, f_conn,
                   u_vars, h_prev, h_repeat, h_sweep>>
    /\ h_at' = 0 - 1
    /\ UNCHANGED h_seen

\* storeFollowers: connection.commit(); cursor.close()
F_Commit ==
    /\ f_pc = "storing"
    /\ f_todo = {}
    /\ table' = Overlay(table, f_tx)
    /\ f_tx' = {}
    /\ f_pc' = "committed"
    /\ h_prev' = {f_followers}
    /\ h_sweep' = "none"
    /\ UNCHANGED <<i_vars, m_vars, audience, runs, clock, created, f_followers, f_todo, f_conn,
                   u_vars, h_repeat>>
    /\ h_seen' = h_seen \cup DOMAIN f_followers
    /\ h_at' = 0 - 1

\* processFollowers: mysql.close()
F_Close ==
    /\ f_pc = "committed"
    /\ f_conn' = "closed"
    /\ f_pc' = "done"
    /\ UNCHANGED <<i_vars, m_vars, audience, runs, clock, created, table, f_followers, f_todo, f_tx,
                   u_vars, h_prev, h_repeat, h_sweep>>
    /\ UNCHANGED <<h_seen, h_at>>

\* A statement of storeFollowers raises: nothing in storeFollowers or
\* processFollowers catches it, so the process ends there, before commit()
\* and before mysql.close(); the server rolls the open transaction back.
F_Fail ==
    /\ f_pc \in {"connected", "storing"}
    /\ f_pc' = "failed"
    /\ f_tx' = {}
    /\ UNCHANGED <<i_vars, m_vars, audience, runs, clock, created, table, f_followers, f_todo, f_conn,
                   u_vars, h_prev, h_repeat, h_sweep>>
    /\ UNCHANGED <<h_seen, h_at>>

(***************************************************************************)
(* The unfollows run: processUnfollowers.                                  *)
(***************************************************************************)
\* processUnfollowers: username = ...; mysql = initMYSQL(...)
U_Connect ==
    /\ u_pc \in {"idle", "closed", "done", "failed"}
    /\ runs < MaxRuns
    /\ runs' = runs + 1
    /\ u_pc' = "connected"
    /\ u_conn' = "open"
    /\ u_username' \in Usernames
    /\ u_unfollowers' = {} /\ u_count' = 0 /\ u_todo' = {} /\ u_tx' = {}
    /\ u_body' = << >> /\ u_listed' = FALSE
    /\ UNCHANGED <<i_vars, m_vars, audience, clock, created, table, f_vars, u_cutoff, h_prev, h_repeat, h_sweep>>
    /\ h_at' = 0 - 1
    /\ UNCHANGED h_seen

\* getUnfollowers: CREATE DATABASE / CREATE TABLE IF NOT EXISTS; connection.commit()
U_Schema ==
    /\ u_pc = "connected"
    /\ u_pc' = "selecting"
    /\ created' = TRUE
    /\ UNCHANGED <<i_vars, m_vars, audience, runs, clock, table, f_vars, u_cutoff, u_unfollowers, u_count, u_todo,
                   u_tx, u_conn, h_prev, h_repeat, h_sweep>>
    /\ UNCHANGED <<h_seen, h_at>>
    /\ UNCHANGED <<u_username, u_body, u_listed>>

\* getUnfollowers: day_before_yesterday = ...; SELECT ...; fetchall(); count = len(...)
U_Select ==
    /\ u_pc = "selecting"
    /\ u_cutoff' = Cutoff(clock)
    /\ u_unfollowers' = SelectUnfollowers(table, Cutoff(clock))
    /\ u_count' = Cardinality(SelectUnfollowers(table, Cutoff(clock)))
    /\ u_todo' = SelectUnfollowers(table, Cutoff(clock))
    /\ u_pc' = "marking"
    /\ h_sweep' = IF h_sweep = "swept" THEN "reselected" ELSE "selected"
    /\ UNCHANGED <<i_vars, m_vars, audience, runs, clock, created, table, f_vars, u_tx, u_conn,
                   h_prev, h_repeat>>
    /\ h_at' = clock
    /\ UNCHANGED h_seen
    /\ UNCHANGED <<u_username, u_body, u_listed>>

\* storeUnfollowers: one turn of the loop: UPDATE ... SET gone = 1 WHERE id = {}
U_Mark ==
    /\ u_pc = "marking"
    /\ \E u \in u_todo :
          /\ \A r \in f_tx : ~IdMatches(r.id, u[1])
          /\ LET view == MarkGone(Overlay(table, u_tx), u[1])
             IN  u_tx' = { r \in view : \/ r.id \in RowIds(u_tx)
                                        \/ IdMatches(r.id, u[1]) }
          /\ u_todo' = u_todo \ {u}
    /\ UNCHANGED <<i_vars, m_vars, audience, runs, clock, created, table, f_vars, u_pc, u_cutoff, u_unfollowers,
                   u_count, u_conn, h_prev, h_repeat, h_sweep>>
    /\ UNCHANGED <<h_seen, h_at>>
    /\ UNCHANGED <<u_username, u_body, u_listed>>

\* storeUnfollowers: connection.commit(); cursor.close()
U_Commit ==
    /\ u_pc = "marking"
    /\ u_todo = {}
    /\ table' = Overlay(table, u_tx)
    /\ u_tx' = {}
    /\ u_pc' = "committed"
    /\ h_prev' = {}
    /\ h_repeat' = FALSE
    /\ h_sweep' = IF h_sweep \in {"selected", "reselected"} THEN "swept" ELSE "none"
    /\ UNCHANGED <<i_vars, m_vars, audience, runs, clock, created, f_vars, u_cutoff, u_unfollowers, u_count,
                   u_todo, u_conn>>
    /\ h_at' = 0 - 1
    /\ UNCHANGED h_seen
    /\ UNCHANGED <<u_username, u_body, u_listed>>

\* processUnfollowers: mysql.close()
U_Close ==
    /\ u_pc = "committed"
    /\ u_conn' = "closed"
    /\ u_pc' = "closed"
    /\ UNCHANGED <<i_vars, m_vars, audience, runs, clock, created, table, f_vars, u_cutoff, u_unfollowers, u_count,
                   u_todo, u_tx, h_prev, h_repeat, h_sweep>>
    /\ UNCHANGED <<h_seen, h_at>>
    /\ UNCHANGED <<u_username, u_body, u_listed>>

\* storeUnfollowerCount: json_body.append(createPoint(username, 'unfollows', count,
\* getTheTime(0), verbose))
U_Point ==
    /\ u_pc = "closed"
    /\ u_body' = << createPoint(u_username, "unfollows", u_count, clock) >>
    /\ u_pc' = "listing"
    /\ UNCHANGED <<i_vars, m_vars, audience, runs, clock, created, table, f_vars, u_cutoff,
                   u_unfollowers, u_count, u_todo, u_tx, u_conn, u_username, u_listed,
                   h_prev, h_repeat, h_sweep, h_seen, h_at>>

\* storeUnfollowerCount: dbs = connection.get_list_database()
U_List ==
    /\ u_pc = "listing"
    /\ u_listed' = Listed(i_dbs, Database)
    /\ u_pc' = "ensuring"
    /\ UNCHANGED <<i_vars, m_vars, audience, runs, clock, created, table, f_vars, u_cutoff,
                   u_unfollowers, u_count, u_todo, u_tx, u_conn, u_username, u_body,
                   h_prev, h_repeat, h_sweep, h_seen, h_at>>

\* storeUnfollowerCount: if not any(...): create_database(database);
\* switch_database(database)
U_Ensure ==
    /\ u_pc = "ensuring"
    /\ LET made == IF u_listed THEN [dbs |-> i_dbs, error |-> FALSE]
                   ELSE CreateDatabase(i_dbs, Database)
       IN  /\ i_dbs' = made.dbs
           /\ u_pc' = IF made.error THEN "failed" ELSE "writing"
    /\ UNCHANGED <<i_points, m_vars, audience, runs, clock, created, table, f_vars, u_cutoff,
                   u_unfollowers, u_count, u_todo, u_tx, u_conn, u_username, u_body, u_listed,
                   h_prev, h_repeat, h_sweep, h_seen, h_at>>

\* storeUnfollowerCount: connection.write_points(json_body)
U_Write ==
    /\ u_pc = "writing"
    /\ i_points' = i_points \cup { u_body[i] : i \in DOMAIN u_body }
    /\ u_pc' = "done"
    /\ UNCHANGED <<i_dbs, m_vars, audience, runs, clock, created, table, f_vars, u_cutoff,
                   u_unfollowers, u_count, u_todo, u_tx, u_conn, u_username, u_body, u_listed,
                   h_prev, h_repeat, h_sweep, h_seen, h_at>>

\* get_list_database() or write_points() of storeUnfollowerCount raises (the
\* server is down, or refuses the write): nothing catches it, so the process
\* ends there, after the commit of storeUnfollowers and with nothing written.
U_SinkFail ==
    /\ u_pc \in {"listing", "writing"}
    /\ u_pc' = "failed"
    /\ UNCHANGED <<i_vars, m_vars, audience, runs, clock, created, table, f_vars, u_cutoff,
                   u_unfollowers, u_count, u_todo, u_tx, u_conn, u_username, u_body, u_listed,
                   h_prev, h_repeat, h_sweep, h_seen, h_at>>

\* A statement of getUnfollowers or storeUnfollowers raises (among the causes:
\* storeUnfollowers passes the bare string (unfollower[0]) as the parameters of
\* execute(), which some builds of the connector reject): nothing catches it,
\* so the process ends there, before commit() and before mysql.close().
U_Fail ==
    /\ u_pc \in {"connected", "selecting", "marking"}
    /\ u_pc' = "failed"
    /\ u_tx' = {}
    /\ UNCHANGED <<i_vars, m_vars, audience, runs, clock, created, table, f_vars, u_cutoff, u_unfollowers, u_count,
                   u_todo, u_conn, h_prev, h_repeat, h_sweep>>
    /\ h_at' = 0 - 1
    /\ UNCHANGED h_seen
    /\ UNCHANGED <<u_username, u_body, u_listed>>

\* Each run is its own process: nothing keeps a followers run and an
\* unfollows run from overlapping.  Next follows an unfollows run as far as
\* it acts on the MySQL store, to mysql.close(); NextSink follows it to its end.
Next ==
    \/ Tick
    \/ F_Fetch \/ F_Connect \/ F_Schema \/ F_Upsert \/ F_Commit \/ F_Close \/ F_Fail
    \/ U_Connect \/ U_Schema \/ U_Select \/ U_Mark \/ U_Commit \/ U_Close \/ U_Fail

Spec == Init /\ [][Next]_vars

(***************************************************************************)
(* The metrics run: processMetrics.                                        *)
(***************************************************************************)
\* The variables of the followers and unfollows runs and of their store.
store_vars == <<audience, created, table, runs, f_vars, u_vars, h_prev, h_repeat, h_sweep,
                h_seen, h_at>>

\* processMetrics: username, metrics = getMetricsCount(...); influxdb = initInfluxDB(...)
M_Get ==
    /\ m_pc \in {"idle", "done"}
    /\ m_runs < MaxMetricsRuns
    /\ m_runs' = m_runs + 1
    /\ m_username' \in Usernames
    /\ m_metrics' \in MetricMaps
    /\ m_listed' = FALSE
    /\ m_body' = << >>
    /\ m_pc' = "listing"
    /\ UNCHANGED <<store_vars, clock, i_vars>>

\* storeMetrics: dbs = connection.get_list_database()
M_List ==
    /\ m_pc = "listing"
    /\ m_listed' = Listed(i_dbs, Database)
    /\ m_pc' = "ensuring"
    /\ UNCHANGED <<store_vars, clock, i_vars, m_runs, m_username, m_metrics, m_body>>

\* storeMetrics: if not any(...): create_database(database); switch_database(database)
M_Ensure ==
    /\ m_pc = "ensuring"
    /\ LET made == IF m_listed THEN [dbs |-> i_dbs, error |-> FALSE]
                   ELSE CreateDatabase(i_dbs, Database)
       IN  /\ i_dbs' = made.dbs
           /\ m_pc' = IF made.error THEN "failed" ELSE "building"
    /\ UNCHANGED <<store_vars, clock, i_points, m_runs, m_username, m_metrics, m_listed, m_body>>

\* storeMetrics: one turn of the loop over metrics.items():
\* json_body.append(createPoint(username, key, value, getTheTime(0), verbose))
M_Point ==
    /\ m_pc = "building"
    /\ Len(m_body) < Len(MetricNames)
    /\ LET key == MetricNames[Len(m_body) + 1]
       IN  m_body' = Append(m_body, createPoint(m_username, key, m_metrics[key], clock))
    /\ UNCHANGED <<store_vars, clock, i_vars, m_runs, m_pc, m_username, m_metrics, m_listed>>

\* storeMetrics: connection.write_points(json_body)
M_Write ==
    /\ m_pc = "building"
    /\ Len(m_body) = Len(MetricNames)
    /\ i_points' = i_points \cup { m_body[i] : i \in DOMAIN m_body }
    /\ m_pc' = "done"
    /\ UNCHANGED <<store_vars, clock, i_dbs, m_runs, m_username, m_metrics, m_listed, m_body>>

NextMetrics ==
    Tick \/ M_Get \/ M_List \/ M_Ensure \/ M_Point \/ M_Write

SpecMetrics == Init /\ [][NextMetrics]_vars

(***************************************************************************)
(* The runs that write to InfluxDB: the unfollows run, to its end, and the *)
(* metrics run, side by side.  InitSink is the state of Spec in which one  *)
(* followers run has stored the whole audience at tick 0 and has ended,    *)
(* and the clock has come to the tick before MaxTime: the records are not  *)
(* stale for a sweep at that tick and are stale for a sweep a tick later.  *)
(***************************************************************************)
InitSink ==
    /\ audience \in { S \in SUBSET Ids : Cardinality(S) = MaxAudience }
    /\ clock = MaxTime - 1
    /\ created = TRUE
    /\ \E snap \in [audience -> Profiles] :
          /\ f_followers = snap
          /\ table = { NewRow(id, snap[id], 0) : id \in audience }
          /\ h_prev = {snap}
    /\ runs = 1
    /\ f_pc = "done" /\ f_todo = {} /\ f_tx = {} /\ f_conn = "closed"
    /\ u_pc = "idle" /\ u_cutoff = 0 /\ u_unfollowers = {} /\ u_count = 0
    /\ u_todo = {} /\ u_tx = {} /\ u_conn = "none"
    /\ u_username = "" /\ u_body = << >> /\ u_listed = FALSE
    /\ i_dbs = << "_internal" >> /\ i_points = {}
    /\ m_runs = 0
    /\ m_pc = "idle" /\ m_username = "" /\ m_metrics = << >>
    /\ m_listed = FALSE /\ m_body = << >>
    /\ h_repeat = FALSE
    /\ h_sweep = "none"
    /\ h_seen = audience
    /\ h_at = 0 - 1

NextSink ==
    \/ Tick
    \/ U_Connect \/ U_Schema \/ U_Select \/ U_Mark \/ U_Commit \/ U_Close \/ U_Fail
    \/ U_Point \/ U_List \/ U_Ensure \/ U_Write \/ U_SinkFail
    \/ M_Get \/ M_List \/ M_Ensure \/ M_Point \/ M_Write

SpecSink == InitSink /\ [][NextSink]_vars

(***************************************************************************)
(* The steps the properties below speak about.                             *)
(***************************************************************************)
\* The grace window the specification names, in ticks.
GraceWindow == GraceDays * TicksPerDay

\* The row of id in a set of rows (each id has one row in the sets this is used on).
RowOf(rows, id) == CHOOSE r \in rows : r.id = id

\* storeFollowers writes the row of id in this step.
UpsertStep(id) == f_pc = "storing" /\ id \in f_todo /\ id \notin f_todo'

\* storeFollowers commits in this step: the pass is complete.
PassCommitStep == f_pc = "storing" /\ f_pc' = "committed"

\* getUnfollowers selects in this step.
SelectStep == u_pc = "selecting" /\ u_pc' = "marking"

\* storeUnfollowers commits in this step: the sweep is complete.
SweepCommitStep == u_pc = "marking" /\ u_pc' = "committed"

\* The ids a sweep returned.
Returned(unfollowers) == { u[1] : u \in unfollowers }

(***************************************************************************)
(* C1.  Gone monotonic-by-window: a record with gone = false that was last *)
(* refreshed at t0 is not returned and not marked gone by a sweep executed *)
(* before t0 + graceWindow, and is returned (and then marked gone) by a    *)
(* sweep executed after t0 + graceWindow, the window being 2 days.         *)
(***************************************************************************)
C1_GoneByWindow ==
    [][ /\ SelectStep =>
             \A r \in table :
                ~r.gone =>
                   /\ clock > r.last_seen + GraceWindow
                         => <<r.id, r.screen_name>> \in u_unfollowers'
                   /\ clock < r.last_seen + GraceWindow
                         => <<r.id, r.screen_name>> \notin u_unfollowers'
        /\ SweepCommitStep =>
             \A r \in table :
                (~r.gone /\ clock < r.last_seen + GraceWindow)
                   => \A r2 \in table' : r2.id = r.id => ~r2.gone
      ]_vars

(***************************************************************************)
(* C2.  A write that fails on one record of a pass does not abort the      *)
(* batch: when the pass has ended, every record of the snapshot whose      *)
(* write succeeded is committed to the store.                              *)
(***************************************************************************)
C2_BatchSurvivesFailure ==
    (f_pc = "failed" /\ f_todo # {}) =>
        \A id \in (DOMAIN f_followers) \ f_todo :
            \E r \in table :
                /\ r.id = id
                /\ r.screen_name = f_followers[id].screen_name
                /\ ~r.gone

(***************************************************************************)
(* C3.  Upsert idempotence: when a pass reconciles the snapshot the pass   *)
(* before it reconciled, each id of the snapshot ends with exactly one     *)
(* row, whose first_seen is the one it had after the first pass and whose  *)
(* last_seen is the time the second pass wrote it.                         *)
(***************************************************************************)
C3_UpsertIdempotence ==
    [][ /\ \A id \in Ids :
             (h_repeat /\ UpsertStep(id)) =>
                /\ Cardinality({ r \in f_tx' : r.id = id }) = 1
                /\ RowOf(f_tx', id).last_seen = clock
        /\ (h_repeat /\ PassCommitStep) =>
             \A id \in DOMAIN f_followers :
                /\ Cardinality({ r \in table : r.id = id }) = 1
                /\ Cardinality({ r \in table' : r.id = id }) = 1
                /\ RowOf(table', id).first_seen = RowOf(table, id).first_seen
                /\ RowOf(table', id) \in f_tx
      ]_vars

\* The second of two passes over the same snapshot has committed, later
\* than the first.
C3_Witness ==
    /\ h_repeat
    /\ f_pc = "committed"
    /\ \E id \in DOMAIN f_followers :
          \E r \in table : r.id = id /\ r.first_seen < r.last_seen

(***************************************************************************)
(* C4.  Reappearance resets gone: a pass whose snapshot holds the id of a  *)
(* record with gone = true leaves that record with gone = false, with      *)
(* last_seen the time the pass wrote it and first_seen unchanged.          *)
(***************************************************************************)
C4_ReappearanceResetsGone ==
    [][ /\ \A r \in table :
             (r.gone /\ UpsertStep(r.id)) =>
                /\ Cardinality({ r2 \in f_tx' : r2.id = r.id }) = 1
                /\ ~RowOf(f_tx', r.id).gone
                /\ RowOf(f_tx', r.id).last_seen = clock
                /\ RowOf(f_tx', r.id).first_seen = r.first_seen
        /\ PassCommitStep =>
             \A r \in table :
                (r.gone /\ r.id \in DOMAIN f_followers) =>
                   /\ Cardinality({ r2 \in table' : r2.id = r.id }) = 1
                   /\ ~RowOf(table', r.id).gone
                   /\ RowOf(table', r.id).first_seen = r.first_seen
                   /\ RowOf(table', r.id) \in f_tx
      ]_vars

\* A pass has written, at a later time, a record the store holds as gone.
C4_Witness ==
    /\ f_pc = "storing"
    /\ \E r \in table :
          /\ r.gone
          /\ \E r2 \in f_tx :
                r2.id = r.id /\ ~r2.gone /\ r2.last_seen > r.last_seen

(***************************************************************************)
(* C5.  Sweep idempotence: a sweep that follows a completed sweep, with no *)
(* pass in between, returns the empty set and count 0 and changes no       *)
(* record.                                                                 *)
(***************************************************************************)
C5_SweepIdempotence ==
    [][ /\ (h_sweep = "swept" /\ SelectStep) =>
             (u_unfollowers' = {} /\ u_count' = 0)
        /\ (h_sweep = "reselected" /\ SweepCommitStep) =>
             table' = table
      ]_vars

(***************************************************************************)
(* C5, as amended.  A sweep that follows a completed sweep, with no pass   *)
(* in between, and that computes a cutoff date no later than the first     *)
(* one's (as it does on the same calendar day), returns the empty set and  *)
(* count 0 and changes no record.                                          *)
(***************************************************************************)
C5_SweepIdempotenceSameCutoff ==
    [][ /\ (h_sweep = "swept" /\ SelectStep /\ Cutoff(clock) <= u_cutoff) =>
             (u_unfollowers' = {} /\ u_count' = 0)
        /\ (h_sweep = "reselected" /\ SweepCommitStep /\ u_unfollowers = {}) =>
             table' = table
      ]_vars

\* The sweep after a completed sweep that had marked a record gone has
\* selected, with the same cutoff date and no pass in between, while the
\* store holds a record that is not gone.
C5_Witness ==
    /\ h_sweep = "reselected"
    /\ u_pc = "marking"
    /\ u_cutoff = Cutoff(clock)
    /\ \E r \in table : r.gone /\ r.last_seen < u_cutoff
    /\ \E r \in table : ~r.gone

(***************************************************************************)
(* C6.  First-seen immutability: the first_seen of a record is the time at *)
(* which the pass that inserted its id wrote it, and no later pass or      *)
(* sweep changes it (nor removes the record).                              *)
(***************************************************************************)
C6_FirstSeenImmutable ==
    [][ /\ \A id \in Ids :
             (UpsertStep(id) /\ id \notin RowIds(table) /\ id \notin RowIds(f_tx)) =>
                \A r2 \in f_tx' : r2.id = id => r2.first_seen = clock
        /\ \A r \in table :
             /\ \E r2 \in table' : r2.id = r.id
             /\ \A r2 \in table' : r2.id = r.id => r2.first_seen = r.first_seen
        /\ \A r2 \in table' :
             r2.id \notin RowIds(table) => (PassCommitStep /\ r2 \in f_tx)
      ]_vars

\* A record has been refreshed by a later pass and then marked gone by a sweep.
C6_Witness ==
    \E r \in table : r.first_seen < r.last_seen /\ r.gone

(***************************************************************************)
(* C7.  In every reachable state, overlapping runs included, a record with *)
(* gone = true has a last_seen older than the cutoff of the sweep that set *)
(* the flag (cutoffs never decrease, so older than the latest cutoff too): *)
(* no record a pass has refreshed is left with gone = true.  Stated for    *)
(* the audiences whose ids the UPDATE of storeUnfollowers tells apart, so  *)
(* that what decides it is the overlap of the runs alone.                  *)
(***************************************************************************)
C7_GoneImpliesStale ==
    (\A a, b \in audience : IdMatches(a, b) => a = b) =>
        \A r \in table : r.gone => r.last_seen < u_cutoff

(***************************************************************************)
(* C8.  A sweep returns exactly the records that had gone = false and      *)
(* last_seen < now - graceWindow, the count is the size of that set, and   *)
(* the sweep sets gone on exactly the returned records and changes nothing *)
(* else.                                                                   *)
(***************************************************************************)
C8_SweepExact ==
    [][ /\ SelectStep =>
             /\ u_unfollowers' =
                   { <<r.id, r.screen_name>> :
                        r \in { q \in table :
                                   ~q.gone /\ q.last_seen < clock - GraceWindow } }
             /\ u_count' = Cardinality(u_unfollowers')
        /\ SweepCommitStep =>
             table' = { IF r.id \in Returned(u_unfollowers)
                        THEN [r EXCEPT !.gone = TRUE] ELSE r : r \in table }
      ]_vars

(***************************************************************************)
(* C9.  Metric point construction: the batch storeMetrics builds holds one *)
(* point per entry of the mapping and no other, each with the entry's name *)
(* as measurement, the account as tag, the entry's value, and the time T   *)
(* of the batch; building it leaves the mapping unchanged.                 *)
(***************************************************************************)
C9_MetricPoints ==
    [][ /\ m_pc = "building" => m_metrics' = m_metrics
        /\ (m_pc = "building" /\ m_pc' = "done") =>
             /\ Len(m_body) = Len(MetricNames)
             /\ \E T \in 0..MaxTime :
                   \A i \in DOMAIN MetricNames :
                      m_body[i] = [measurement |-> MetricNames[i],
                                   tags |-> [user |-> m_username],
                                   time |-> T,
                                   fields |-> [value |-> m_metrics[MetricNames[i]]]]
      ]_vars

(***************************************************************************)
(* C10.  The connection a run opened is closed on every exit path of the   *)
(* run: when its store operations succeeded and when one of them raised.   *)
(***************************************************************************)
C10_ConnectionReleased ==
    /\ f_pc \in {"done", "failed"} => f_conn # "open"
    /\ u_pc \in {"done", "failed"} => u_conn # "open"

C12_NeverDeleted ==
    [][ /\ RowIds(table) \subseteq RowIds(table')
        /\ RowIds(table') = h_seen'
        /\ \A id \in RowIds(table') :
              Cardinality({ r \in table' : r.id = id }) = 1
      ]_vars

\* The store holds two records, inserted by different passes, of which a
\* sweep has marked the older one gone.
C12_Witness ==
    /\ Cardinality(table) = 2
    /\ \E r1, r2 \in table : r1.first_seen < r2.first_seen /\ r1.gone /\ ~r2.gone

(***************************************************************************)
(* C13.  In every reachable state every record has last_seen >= first_seen *)
(* (committed or written and not yet committed): an inserted record has    *)
(* first_seen = last_seen = the time of the insertion, and an update sets  *)
(* last_seen to the time of the update, not earlier than first_seen.       *)
(***************************************************************************)
C13_LastSeenNotBeforeFirstSeen ==
    [][ /\ \A r \in table' \cup f_tx' \cup u_tx' : r.last_seen >= r.first_seen
        /\ \A id \in Ids :
              UpsertStep(id) =>
                 \A r2 \in f_tx' :
                    r2.id = id =>
                       /\ r2.last_seen = clock
                       /\ id \notin RowIds(Overlay(table, f_tx)) => r2.first_seen = clock
      ]_vars

\* A record inserted after tick 0 has been refreshed by a later pass.
C13_Witness ==
    \E r \in table : 0 < r.first_seen /\ r.first_seen < r.last_seen /\ ~r.gone

(***************************************************************************)
(* C14.  Whenever the sweep executes, a reconciliation pass of the run has *)
(* already completed, so every entity the sweep returns was returned after *)
(* a completed pass and is absent from that pass's snapshot (the latest    *)
(* snapshot fetched).                                                      *)
(***************************************************************************)
C14_ReconcileBeforeSweep ==
    [][ SelectStep =>
           \A u \in u_unfollowers' :
              /\ f_pc \in {"committed", "done"}
              /\ u[1] \notin DOMAIN f_followers
      ]_vars

(***************************************************************************)
(* C15.  A record inserted or refreshed by a pass at time now is not       *)
(* returned by a sweep that selects at that same time, and is not marked   *)
(* gone by a sweep that selects and commits at that same time with no pass *)
(* writing in between.                                                     *)
(***************************************************************************)
C15_FreshNeverSwept ==
    [][ /\ SelectStep =>
              \A r \in table :
                 r.last_seen = clock => <<r.id, r.screen_name>> \notin u_unfollowers'
        /\ (SweepCommitStep /\ h_at = clock) =>
              \A r \in table :
                 (r.last_seen = clock /\ ~r.gone) =>
                    \A r2 \in table' : r2.id = r.id => ~r2.gone
      ]_vars

(***************************************************************************)
(* C16.  A pass leaves every record whose id is not in its snapshot        *)
(* unchanged in every column; it deletes nothing and sets no record's gone *)
(* flag.                                                                   *)
(***************************************************************************)
C16_ReconcileFrame ==
    [][ /\ (f_pc = "storing" /\ f_tx' # f_tx /\ f_pc' # "failed") =>
              \A r \in f_tx' : r.id \in DOMAIN f_followers /\ ~r.gone
        /\ PassCommitStep =>
              /\ \A r \in table : r.id \notin DOMAIN f_followers => r \in table'
              /\ \A r \in table : \E r2 \in table' : r2.id = r.id
              /\ \A r2 \in table' : r2.gone => r2 \in table
      ]_vars

\* A pass has committed a snapshot that lacks a record the store holds as
\* gone and refreshes another record.
C16_Witness ==
    /\ f_pc = "committed"
    /\ \E r \in table : r.id \notin DOMAIN f_followers /\ r.gone
    /\ \E r \in table : r.id \in DOMAIN f_followers /\ r.first_seen < r.last_seen

(***************************************************************************)
(* C17.  The unfollow count reaches the sink: when an unfollows run that   *)
(* has committed gone = true for some records has ended, normally or in an *)
(* error, the sink holds the `unfollows` point of that run, carrying their *)
(* count.                                                                  *)
(***************************************************************************)
C17_CountNotLost ==
    (u_pc \in {"done", "failed"} /\ u_conn = "closed" /\ u_count > 0) =>
        \E pt \in i_points :
            /\ u_body = << pt >>
            /\ pt.measurement = "unfollows"
            /\ pt.tags.user = u_username
            /\ pt.fields.value = u_count

====
